---- MODULE Spec2Model ----
(***************************************************************************)
(* A model of the swift-backtrace build shim:                              *)
(*   - tools/swift-backtrace/build-script-helper.py (the helper), and      *)
(*   - swift_build_support/products/swiftbacktrace.py (the descriptor).    *)
(*                                                                         *)
(* Strings are TLA+ strings; a command line is a sequence of strings.  An  *)
(* argument value is a sequence: <<>> is None, <<s>> the string s and a     *)
(* sequence of length 2 the empty list.  The                               *)
(* filesystem is a set of directories and a set of files, named by their   *)
(* absolute normalised paths, with no symbolic links.  The toolchain child *)
(* is the environment: it exits with any code and, for the show-bin-path   *)
(* query, prints any of a few outputs.  The toolchain executable is taken  *)
(* to exist (the child can always be started).                             *)
(***************************************************************************)
EXTENDS Integers, Sequences, FiniteSets, TLC

VARIABLES
    self,         \* the SwiftBacktrace descriptor (source_dir, build_dir, args)
    call,         \* the descriptor method the orchestrator called, and its host
    issued,       \* the helper commands that method handed to shell.call
    pc,           \* the helper's position in main()
    argv,         \* sys.argv[1:] of the running helper
    args,         \* the argparse namespace
    live,         \* the toolchain children that are running now
    spawned,      \* every child command this run started, in order
    invoke,       \* invoke_swift: the child's exit code and the value returned
    query,        \* get_binary_path: the child's exit code and its stdout
    built_binary, \* main's local built_binary
    dirs,         \* the directories of the filesystem
    files,        \* the files of the filesystem
    dirs0,        \* dirs when this run started
    files0,       \* files when this run started
    produced,     \* files the build child of this run wrote
    copies,       \* the copyfile calls of this run that copied, <<src, dst>>
    error,        \* the exception that ended the run, "" if none
    exit_status,  \* the helper's exit status, Running until it ends
    runs          \* helper runs started so far

vars == << self, call, issued, pc, argv, args, live, spawned, invoke, query,
           built_binary, dirs, files, dirs0, files0, produced, copies, error,
           exit_status, runs >>

---------------------------------------------------------------------------
(* Bounds *)

MaxRuns == 2
MaxExit == 1

---------------------------------------------------------------------------
(* Values *)

\* the values argparse stores in the namespace: None, the str s, and the
\* empty list [] (what an option written --opt=-- is given)
None == <<>>
Some(s) == <<s>>
EmptyList == <<"[", "]">>

\* isinstance(v, str)
IsStr(v) == Len(v) = 1

Running == -1

Actions == {"build", "test", "install"}
HostTargets == {"macosx-arm64", "linux-x86_64"}
ExitCodes == 0..MaxExit

---------------------------------------------------------------------------
(* String and path functions of the Python library, as the code uses them *)

\* the vertical tab, 0x0b (the character is between the quotes)
VT == ""

\* the ASCII whitespace bytes.strip() removes
IsSpace(c) == c \in {" ", "\t", "\n", "\r", "\f", VT}

Last(s) == SubSeq(s, Len(s), Len(s))

StartsWith(s, p) == Len(s) >= Len(p) /\ SubSeq(s, 1, Len(p)) = p

RECURSIVE lstrip(_)
lstrip(s) == IF Len(s) > 0 /\ IsSpace(Head(s)) THEN lstrip(Tail(s)) ELSE s

RECURSIVE rstrip(_)
rstrip(s) ==
    IF Len(s) > 0 /\ IsSpace(Last(s))
    THEN rstrip(SubSeq(s, 1, Len(s) - 1))
    ELSE s

\* bytes.strip().decode()
strip(s) == rstrip(lstrip(s))

\* posixpath.join(a, b)
path_join2(a, b) ==
    IF Len(b) > 0 /\ Head(b) = "/" THEN b
    ELSE IF Len(a) = 0 \/ Last(a) = "/" THEN a \o b
    ELSE a \o "/" \o b

\* posixpath.join(a, *p)
RECURSIVE path_join(_)
path_join(parts) ==
    IF Len(parts) = 1 THEN parts[1]
    ELSE path_join(<<path_join2(parts[1], parts[2])>> \o SubSeq(parts, 3, Len(parts)))

\* str.split('/'): the components of a path, empty ones included
RECURSIVE split_slash(_, _)
split_slash(s, cur) ==
    IF Len(s) = 0 THEN <<cur>>
    ELSE IF Head(s) = "/" THEN <<cur>> \o split_slash(Tail(s), "")
    ELSE split_slash(Tail(s), cur \o Head(s))

\* the component loop of posixpath.normpath, for an absolute path
RECURSIVE norm_comps(_, _)
norm_comps(comps, acc) ==
    IF Len(comps) = 0 THEN acc
    ELSE LET c == Head(comps) IN
         IF c \in {"", "."} THEN norm_comps(Tail(comps), acc)
         ELSE IF c = ".."
              THEN norm_comps(Tail(comps),
                              IF Len(acc) > 0 THEN SubSeq(acc, 1, Len(acc) - 1) ELSE acc)
              ELSE norm_comps(Tail(comps), Append(acc, c))

\* '/'.join(comps)
RECURSIVE join_slash(_)
join_slash(comps) ==
    IF Len(comps) = 0 THEN ""
    ELSE IF Len(comps) = 1 THEN Head(comps)
    ELSE Head(comps) \o "/" \o join_slash(Tail(comps))

\* the working directory of the build script and of the helper
Cwd == "/w"

\* posixpath.abspath(p): normpath(join(os.getcwd(), p)); exactly two leading
\* slashes are kept, any other number becomes one
abspath(p) ==
    LET full == path_join2(Cwd, p)
        initial_slashes ==
            IF StartsWith(full, "//") /\ ~StartsWith(full, "///") THEN "//" ELSE "/"
    IN  initial_slashes \o join_slash(norm_comps(split_slash(full, ""), <<>>))

\* the index of the last '/' of p (0 if none): str.rfind
RECURSIVE rfind_slash(_, _)
rfind_slash(p, i) ==
    IF i = 0 THEN 0
    ELSE IF SubSeq(p, i, i) = "/" THEN i
    ELSE rfind_slash(p, i - 1)

RECURSIVE rstrip_slash(_)
rstrip_slash(s) ==
    IF Len(s) > 0 /\ Last(s) = "/" THEN rstrip_slash(SubSeq(s, 1, Len(s) - 1)) ELSE s

\* posixpath.split(p): <<head, tail>>
path_split(p) ==
    LET i == rfind_slash(p, Len(p))
        head == SubSeq(p, 1, i)
        tail == SubSeq(p, i + 1, Len(p))
    IN  << IF rstrip_slash(head) = "" THEN head ELSE rstrip_slash(head), tail >>

---------------------------------------------------------------------------
(* The filesystem, as the system calls under os and shutil see it *)

\* d is a proper ancestor of path x (both absolute and normalised)
IsAncestor(d, x) ==
    /\ Len(x) > Len(d)
    /\ StartsWith(x, d)
    /\ d = "/" \/ SubSeq(x, Len(d) + 1, Len(d) + 1) = "/"

\* p is a directory: one of D, the root, the working directory, or an
\* ancestor of something that exists
IsDir(D, F, p) ==
    \/ p \in D \cup {"/", Cwd}
    \/ \E x \in D \cup F \cup {Cwd} : IsAncestor(p, x)

Parent(p) ==
    LET i == rfind_slash(p, Len(p)) IN IF i <= 1 THEN "/" ELSE SubSeq(p, 1, i - 1)

Child(d, name) == IF d = "/" THEN "/" \o name ELSE d \o "/" \o name

\* path resolution from the directory cur over the components comps: err
\* is "" and path is what the name denotes (which may not exist), or err is
\* the errno of a component before the last that is missing or no directory
RECURSIVE walk(_, _, _, _)
walk(D, F, cur, comps) ==
    IF Len(comps) = 0 THEN [err |-> "", path |-> cur]
    ELSE LET c == Head(comps)
             nxt == IF c = "." THEN cur
                    ELSE IF c = ".." THEN Parent(cur)
                    ELSE Child(cur, c)
         IN  IF Len(comps) = 1 THEN [err |-> "", path |-> nxt]
             ELSE IF IsDir(D, F, nxt) THEN walk(D, F, nxt, Tail(comps))
             ELSE IF nxt \in F THEN [err |-> "ENOTDIR", path |-> nxt]
             ELSE [err |-> "ENOENT", path |-> nxt]

NameComps(p) == SelectSeq(split_slash(p, ""), LAMBDA c : c # "")

\* the name p ends in a slash after its last component
TrailingSlash(p) == Len(p) > 0 /\ Last(p) = "/" /\ NameComps(p) # <<>>

resolve(D, F, p) ==
    IF p = "" THEN [err |-> "ENOENT", path |-> ""]
    ELSE walk(D, F, IF Head(p) = "/" THEN "/" ELSE Cwd, NameComps(p))

\* os.path.exists(p)
path_exists(D, F, p) ==
    LET r == resolve(D, F, p) IN
    r.err = "" /\ (IsDir(D, F, r.path) \/ (r.path \in F /\ ~TrailingSlash(p)))

\* os.path.isdir(p)
path_isdir(D, F, p) ==
    LET r == resolve(D, F, p) IN r.err = "" /\ IsDir(D, F, r.path)

\* the OSError subclass Python raises for an errno
OSErrorOf(errno) ==
    CASE errno = "ENOENT" -> "FileNotFoundError"
      [] errno = "ENOTDIR" -> "NotADirectoryError"
      [] errno = "EEXIST" -> "FileExistsError"
      [] errno = "EISDIR" -> "IsADirectoryError"

\* os.mkdir(name): the exception raised ("" if none) and the directories after
os_mkdir(D, F, name) ==
    LET r == resolve(D, F, name) IN
    IF r.err # "" THEN [exc |-> OSErrorOf(r.err), dirs |-> D]
    ELSE IF IsDir(D, F, r.path) \/ r.path \in F
    THEN [exc |-> "FileExistsError", dirs |-> D]
    ELSE [exc |-> "", dirs |-> D \cup {r.path}]

\* os.makedirs(name), exist_ok=False
RECURSIVE os_makedirs(_, _, _)
os_makedirs(D, F, name) ==
    LET s1 == path_split(name)
        s2 == IF s1[2] = "" THEN path_split(s1[1]) ELSE s1
        head == s2[1]
        tail == s2[2]
    IN  IF head # "" /\ tail # "" /\ ~path_exists(D, F, head)
        THEN LET sub == os_makedirs(D, F, head) IN
             IF sub.exc \notin {"", "FileExistsError"} THEN sub
             ELSE IF tail = "." THEN [exc |-> "", dirs |-> sub.dirs]
             ELSE os_mkdir(sub.dirs, F, name)
        ELSE os_mkdir(D, F, name)

\* what open() finds under the name p: "" for a file or a name that is
\* free, else the errno
open_errno(D, F, p, writing) ==
    LET r == resolve(D, F, p) IN
    IF r.err # "" THEN r.err
    ELSE IF IsDir(D, F, r.path) THEN "EISDIR"
    ELSE IF r.path \in F
         THEN IF ~TrailingSlash(p) THEN ""
              ELSE IF writing THEN "EISDIR" ELSE "ENOTDIR"
    ELSE IF writing THEN IF TrailingSlash(p) THEN "EISDIR" ELSE ""
    ELSE "ENOENT"

\* shutil.copyfile(src, dst): the exception raised ("" if none), the files
\* after, and the files read and written
shutil_copyfile(D, F, src, dst) ==
    LET s == resolve(D, F, src)
        d == resolve(D, F, dst)
        es == open_errno(D, F, src, FALSE)
        ed == open_errno(D, F, dst, TRUE)
        fail(e) == [exc |-> e, files |-> F, src |-> "", dst |-> ""]
    IN  IF path_exists(D, F, src) /\ path_exists(D, F, dst) /\ s.path = d.path
        THEN fail("SameFileError")
        ELSE IF es # "" THEN fail(OSErrorOf(es))
        ELSE IF ed = "EISDIR" /\ ~path_exists(D, F, dst) THEN fail("FileNotFoundError")
        ELSE IF ed # "" THEN fail(OSErrorOf(ed))
        ELSE [exc |-> "", files |-> F \cup {d.path}, src |-> s.path, dst |-> d.path]

---------------------------------------------------------------------------
(* The helper's argument parser (argparse, as lines 9-20 configure it) *)

\* the namespace before any argument is stored: every default
NoArgs ==
    [ action        |-> None,
      verbose       |-> FALSE,
      package_path  |-> None,
      build_path    |-> None,
      toolchain     |-> None,
      install_path  |-> None,
      prefix        |-> None,
      configuration |-> Some("release") ]

\* the option strings of the parser and the dest each one stores to
OptDest ==
    [ o \in { "-h", "--help", "-v", "--verbose", "--package-path",
              "--build-path", "--toolchain", "--install-path", "--prefix",
              "--configuration" } |->
        CASE o \in {"-h", "--help"}    -> "help"
          [] o \in {"-v", "--verbose"} -> "verbose"
          [] o = "--package-path"      -> "package_path"
          [] o = "--build-path"        -> "build_path"
          [] o = "--toolchain"         -> "toolchain"
          [] o = "--install-path"      -> "install_path"
          [] o = "--prefix"            -> "prefix"
          [] o = "--configuration"     -> "configuration" ]

OptionStrings == DOMAIN OptDest

\* the options that take no argument (nargs=0): help and store_true
TakesNoValue(dest) == dest \in {"help", "verbose"}

RequiredDests == {"action", "package_path", "build_path", "toolchain"}

ConfigurationChoices == {"debug", "release"}

\* str.find(c): the index of the first c in s, 0 if there is none
RECURSIVE str_find(_, _, _)
str_find(s, c, i) ==
    IF i > Len(s) THEN 0
    ELSE IF SubSeq(s, i, i) = c THEN i
    ELSE str_find(s, c, i + 1)

IsDigit(c) == c \in {"0", "1", "2", "3", "4", "5", "6", "7", "8", "9"}

RECURSIVE AllDigits(_)
AllDigits(s) == Len(s) = 0 \/ (IsDigit(Head(s)) /\ AllDigits(Tail(s)))

\* argparse's _negative_number_matcher, '^-\d+$|^-\d*\.\d+$', on ASCII text
\* ($ also matches before one final newline)
LooksLikeNegativeNumber(s) ==
    LET t == IF Len(s) > 0 /\ Last(s) = "\n" THEN SubSeq(s, 1, Len(s) - 1) ELSE s
        body == Tail(t)
        dot == str_find(body, ".", 1)
    IN  /\ Len(t) > 1
        /\ Head(t) = "-"
        /\ \/ AllDigits(body)
           \/ /\ dot > 0
              /\ dot < Len(body)
              /\ AllDigits(SubSeq(body, 1, dot - 1))
              /\ AllDigits(SubSeq(body, dot + 1, Len(body)))

\* _get_option_tuples: the <<option string, explicit argument>> readings of
\* an argument that is no option string itself
get_option_tuples(arg) ==
    LET eq == str_find(arg, "=", 1) IN
    IF SubSeq(arg, 2, 2) = "-"
    THEN LET option_prefix == IF eq > 0 THEN SubSeq(arg, 1, eq - 1) ELSE arg
             explicit_arg == IF eq > 0 THEN Some(SubSeq(arg, eq + 1, Len(arg))) ELSE None
         IN  { <<o, explicit_arg>> : o \in { x \in OptionStrings : StartsWith(x, option_prefix) } }
    ELSE { <<o, Some(SubSeq(arg, 3, Len(arg)))>> :
               o \in { x \in OptionStrings : x = SubSeq(arg, 1, 2) } }
         \cup { <<o, None>> :
               o \in { x \in OptionStrings : x # SubSeq(arg, 1, 2) /\ StartsWith(x, arg) } }

\* _parse_optional: how one argument string is read.  kind "A" is an
\* argument, "O" an option (opt "" when the parser has no such option),
\* "E" the ambiguous-option error
parse_optional(arg) ==
    LET A == [kind |-> "A", opt |-> "", explicit |-> None]
        eq == str_find(arg, "=", 1)
        tuples == get_option_tuples(arg)
    IN  IF arg = "" THEN A
        ELSE IF Head(arg) # "-" THEN A
        ELSE IF arg \in OptionStrings THEN [kind |-> "O", opt |-> arg, explicit |-> None]
        ELSE IF Len(arg) = 1 THEN A
        ELSE IF eq > 0 /\ SubSeq(arg, 1, eq - 1) \in OptionStrings
             THEN [kind |-> "O", opt |-> SubSeq(arg, 1, eq - 1),
                   explicit |-> Some(SubSeq(arg, eq + 1, Len(arg)))]
        ELSE IF Cardinality(tuples) > 1 THEN [kind |-> "E", opt |-> "", explicit |-> None]
        ELSE IF Cardinality(tuples) = 1
             THEN LET t == CHOOSE t \in tuples : TRUE
                  IN  [kind |-> "O", opt |-> t[1], explicit |-> t[2]]
        ELSE IF LooksLikeNegativeNumber(arg) THEN A
        ELSE IF str_find(arg, " ", 1) > 0 THEN A
        ELSE [kind |-> "O", opt |-> "", explicit |-> None]

\* the first loop of _parse_known_args: each argument string classified;
\* "--" is kind "-" and everything after it is an argument
RECURSIVE classify(_, _)
classify(arg_strings, after_dashes) ==
    IF Len(arg_strings) = 0 THEN <<>>
    ELSE IF after_dashes
         THEN <<[kind |-> "A", opt |-> "", explicit |-> None]>>
              \o classify(Tail(arg_strings), TRUE)
    ELSE IF Head(arg_strings) = "--"
         THEN <<[kind |-> "-", opt |-> "", explicit |-> None]>>
              \o classify(Tail(arg_strings), TRUE)
    ELSE <<parse_optional(Head(arg_strings))>> \o classify(Tail(arg_strings), FALSE)

\* a parse in progress: the namespace, the dests seen, whether the
\* positional is still to come, whether there are extras, and how it ended
\* ("" while it goes on, "error" for parser.error, "help" for the help exit)
ParseStart ==
    [ns |-> NoArgs, seen |-> {}, positional |-> TRUE, extras |-> FALSE, end |-> ""]

\* _get_values for an option that takes one argument: the first "--" of
\* the argument strings is removed, so the argument string "--" leaves no
\* string and the value is the empty list; any other string is the value
get_values(value) == IF value = Some("--") THEN EmptyList ELSE value

\* _check_value: only a single value is checked against choices
check_value(dest, value) ==
    dest = "configuration" /\ IsStr(value) => value[1] \in ConfigurationChoices

\* take_action: store one value (value is None for an option without one)
take_action(st, dest, value) ==
    IF st.end # "" THEN st
    ELSE IF dest = "help" THEN [st EXCEPT !.end = "help"]
    ELSE IF dest = "verbose"
         THEN [st EXCEPT !.ns.verbose = TRUE, !.seen = @ \cup {dest}]
    ELSE IF ~check_value(dest, get_values(value)) THEN [st EXCEPT !.end = "error"]
    ELSE [st EXCEPT !.ns[dest] = get_values(value), !.seen = @ \cup {dest}]

RECURSIVE take_actions(_, _)
take_actions(st, action_tuples) ==
    IF Len(action_tuples) = 0 THEN st
    ELSE take_actions(take_action(st, Head(action_tuples)[1], Head(action_tuples)[2]),
                      Tail(action_tuples))

\* the loop of consume_optional: the <<dest, value>> pairs one argument
\* string stands for and the index after it, or stop 0 for an ArgumentError
RECURSIVE option_actions(_, _, _, _, _, _)
option_actions(arg_strings, pattern, start_index, option_string, explicit_arg, acc) ==
    LET dest == OptDest[option_string]
        failed == [tuples |-> acc, stop |-> 0]
    IN  IF explicit_arg # None
        THEN IF TakesNoValue(dest) /\ SubSeq(option_string, 2, 2) # "-" /\ explicit_arg[1] # ""
             THEN LET next_option == "-" \o Head(explicit_arg[1])
                      new_explicit_arg ==
                          IF Len(explicit_arg[1]) > 1 THEN Some(Tail(explicit_arg[1])) ELSE None
                  IN  IF next_option \in OptionStrings
                      THEN option_actions(arg_strings, pattern, start_index, next_option,
                                          new_explicit_arg, Append(acc, <<dest, None>>))
                      ELSE failed
             ELSE IF ~TakesNoValue(dest)
                  THEN [tuples |-> Append(acc, <<dest, explicit_arg>>), stop |-> start_index + 1]
             ELSE failed
        ELSE IF TakesNoValue(dest)
             THEN [tuples |-> Append(acc, <<dest, None>>), stop |-> start_index + 1]
        ELSE IF start_index < Len(arg_strings) /\ pattern[start_index + 1].kind = "A"
             THEN [tuples |-> Append(acc, <<dest, Some(arg_strings[start_index + 1])>>),
                   stop |-> start_index + 2]
        ELSE failed

\* consume_optional(start_index): the state after and the next index
consume_optional(arg_strings, pattern, start_index, st) ==
    LET o == pattern[start_index] IN
    IF o.opt = ""
    THEN [st |-> [st EXCEPT !.extras = TRUE], index |-> start_index + 1]
    ELSE LET r == option_actions(arg_strings, pattern, start_index, o.opt, o.explicit, <<>>)
         IN  IF r.stop = 0
             THEN [st |-> [st EXCEPT !.end = "error"], index |-> start_index]
             ELSE [st |-> take_actions(st, r.tuples), index |-> r.stop]

\* consume_positionals(start_index): the positional pattern is -*A-*, and
\* _get_values drops the first "--" of what it matched
consume_positionals(arg_strings, pattern, start_index, st) ==
    LET n == Len(arg_strings)
        kind(i) == IF i <= n THEN pattern[i].kind ELSE ""
        same == [st |-> st, index |-> start_index]
        taken(v, c) ==
            [st |-> [st EXCEPT !.ns.action = Some(v), !.seen = @ \cup {"action"},
                               !.positional = FALSE],
             index |-> start_index + c]
    IN  IF ~st.positional THEN same
        ELSE IF kind(start_index) = "-" /\ kind(start_index + 1) = "A"
             THEN taken(arg_strings[start_index + 1], 2)
        ELSE IF kind(start_index) = "A"
             THEN taken(arg_strings[start_index],
                        IF kind(start_index + 1) = "-" THEN 2 ELSE 1)
        ELSE same

\* the loop of _parse_known_args that consumes positionals and optionals
\* alternately, then the positionals after the last option
RECURSIVE parse_loop(_, _, _, _)
parse_loop(arg_strings, pattern, start_index, st) ==
    LET n == Len(arg_strings)
        option_indices == { i \in start_index..n : pattern[i].kind = "O" }
    IN  IF st.end # "" THEN st
        ELSE IF option_indices = {}
        THEN LET p == consume_positionals(arg_strings, pattern, start_index, st)
             IN  [p.st EXCEPT !.extras = @ \/ p.index <= n]
        ELSE LET next_option_string_index ==
                     CHOOSE i \in option_indices : \A j \in option_indices : i <= j
                 p == IF start_index # next_option_string_index
                      THEN consume_positionals(arg_strings, pattern, start_index, st)
                      ELSE [st |-> st, index |-> start_index]
             IN  IF p.index > start_index
                 THEN parse_loop(arg_strings, pattern, p.index, p.st)
                 ELSE LET skipped == start_index # next_option_string_index
                          c == consume_optional(arg_strings, pattern, next_option_string_index,
                                   [p.st EXCEPT !.extras = @ \/ skipped])
                      IN  parse_loop(arg_strings, pattern, c.index, c.st)

\* parser.parse_args(): status "ok" with the namespace, "error" (exit
\* status 2, usage on stderr) or "help" (exit status 0, help on stdout)
parse_args(arg_strings) ==
    LET pattern == classify(arg_strings, FALSE)
        st == parse_loop(arg_strings, pattern, 1, ParseStart)
    IN  IF \E i \in 1..Len(pattern) : pattern[i].kind = "E"
        THEN [status |-> "error", ns |-> NoArgs]
        ELSE IF st.end # "" THEN [status |-> st.end, ns |-> NoArgs]
        ELSE IF ~(RequiredDests \subseteq st.seen) \/ st.extras
        THEN [status |-> "error", ns |-> NoArgs]
        ELSE [status |-> "ok", ns |-> st.ns]

---------------------------------------------------------------------------
(* The helper: the toolchain command line *)

\* line 22, where args.toolchain is a str
swift_path == path_join(<<args.toolchain[1], "bin", "swift">>)

\* the strs of a list of str literals, as values
RECURSIVE Strs(_)
Strs(v) == IF v = <<>> THEN <<>> ELSE <<Some(Head(v))>> \o Strs(Tail(v))

\* mutant: --scratch-path is emitted before --package-path
get_args_for_swift_scratch_first(action, product, extra_args) ==
    LET all_args == << Some(swift_path), Some(action),
                       Some("--scratch-path"), args.build_path,
                       Some("--package-path"), args.package_path,
                       Some("--configuration"), args.configuration >>
        with_extra == all_args \o Strs(extra_args)
        with_product ==
            IF action = "test"
            THEN with_extra \o Strs(<<"--test-product", product>>)
            ELSE with_extra \o Strs(<<"--product", product>>)
    IN  IF args.verbose THEN Append(with_product, Some("--verbose")) ELSE with_product

\* mutant: the product is named with --product whatever the action
get_args_for_swift_product_only(action, product, extra_args) ==
    LET all_args == << Some(swift_path), Some(action),
                       Some("--package-path"), args.package_path,
                       Some("--scratch-path"), args.build_path,
                       Some("--configuration"), args.configuration >>
        with_extra == all_args \o Strs(extra_args)
        with_product == with_extra \o Strs(<<"--product", product>>)
    IN  IF args.verbose THEN Append(with_product, Some("--verbose")) ELSE with_product

\* mutant: --verbose is added before the extra arguments and the product flag
get_args_for_swift_verbose_first(action, product, extra_args) ==
    LET all_args == << Some(swift_path), Some(action),
                       Some("--package-path"), args.package_path,
                       Some("--scratch-path"), args.build_path,
                       Some("--configuration"), args.configuration >>
        with_verbose ==
            IF args.verbose THEN Append(all_args, Some("--verbose")) ELSE all_args
        with_extra == with_verbose \o Strs(extra_args)
    IN  IF action = "test"
        THEN with_extra \o Strs(<<"--test-product", product>>)
        ELSE with_extra \o Strs(<<"--product", product>>)

\* lines 24-38: the list get_args_for_swift returns, a list of values: the
\* strs it writes and, as they are, the values of args.package_path,
\* args.build_path and args.configuration (action, product and the elements
\* of extra_args are str literals at every call)
get_args_for_swift(action, product, extra_args) ==
    LET all_args == << Some(swift_path), Some(action),
                       Some("--package-path"), args.package_path,
                       Some("--scratch-path"), args.build_path,
                       Some("--configuration"), args.configuration >>
        with_extra == all_args \o Strs(extra_args)
        with_product ==
            IF action = "test"
            THEN with_extra \o Strs(<<"--test-product", product>>)
            ELSE with_extra \o Strs(<<"--product", product>>)
    IN  IF args.verbose THEN Append(with_product, Some("--verbose")) ELSE with_product

\* subprocess hands a child the strs of its argument list; a list with an
\* element that is no str is refused (TypeError) before a child is started
AllStr(cmd) == \A i \in 1..Len(cmd) : IsStr(cmd[i])

RECURSIVE child_argv(_)
child_argv(cmd) == IF cmd = <<>> THEN <<>> ELSE <<Head(cmd)[1]>> \o child_argv(Tail(cmd))

---------------------------------------------------------------------------
(* The toolchain child, as the helper sees it *)

\* the value that follows option opt in a command line, None if it has none
RECURSIVE OptValue(_, _)
OptValue(cmd, opt) ==
    IF Len(cmd) < 2 THEN None
    ELSE IF Head(cmd) = opt THEN Some(cmd[2])
    ELSE OptValue(Tail(cmd), opt)

\* the directory a build writes its products to, which --show-bin-path prints
SwiftBinDir(cmd) ==
    path_join(<<OptValue(cmd, "--scratch-path")[1], OptValue(cmd, "--configuration")[1]>>)

\* the file a successful build of the product leaves behind, as named
SwiftBuiltFile(cmd) == path_join(<<SwiftBinDir(cmd), OptValue(cmd, "--product")[1]>>)

\* the absolute normalised path of a name the child uses
canonical(p) == "/" \o join_slash(norm_comps(split_slash(path_join2(Cwd, p), ""), <<>>))

\* the files a build child that exits with rc writes: its product, with the
\* directories above it, unless something is in the way
SwiftWrites(D, F, cmd, rc) ==
    LET target == canonical(SwiftBuiltFile(cmd)) IN
    IF /\ cmd[2] = "build"
       /\ rc = 0
       /\ ~IsDir(D, F, target)
       /\ \A f \in F : ~IsAncestor(f, target)
    THEN {target}
    ELSE {}

\* what the show-bin-path child may print
QueryOutputs(cmd) ==
    {"", "\n", SwiftBinDir(cmd) \o "\n", SwiftBinDir(cmd) \o "\f" \o VT \o "\n"}

---------------------------------------------------------------------------
(* The descriptor (swiftbacktrace.py) *)

NoCall == [method |-> "", host_target |-> ""]

\* Product.is_release()
is_release == self.release

\* Product.install_toolchain_path(host_target)
install_toolchain_path(host_target) == "/dest/" \o host_target \o "/usr"

\* Product.native_toolchain_path(host_target)
native_toolchain_path(host_target) == "/native/" \o host_target \o "/usr"

\* mutant: --install-path is passed for the install action only
helper_cmd_install_only(action, host_target) ==
    LET configuration == IF is_release THEN "release" ELSE "debug"
        package_path ==
            abspath(path_join(<<self.source_dir, "..", "swift", "tools",
                                "swift-backtrace">>))
        script_path == path_join(<<package_path, "build-script-helper.py">>)
        install_path ==
            path_join(<<install_toolchain_path(host_target), "libexec", "swift">>)
        cmd == << script_path, action,
                  "--toolchain", native_toolchain_path(host_target),
                  "--configuration", configuration,
                  "--build-path", self.build_dir,
                  "--package-path", package_path >>
                \o (IF action = "install"
                    THEN <<"--install-path", install_path>> ELSE <<>>)
    IN  IF self.verbose_build THEN Append(cmd, "--verbose") ELSE cmd

\* the command run_build_script_helper assembles
helper_cmd(action, host_target) ==
    LET configuration == IF is_release THEN "release" ELSE "debug"
        package_path ==
            abspath(path_join(<<self.source_dir, "..", "swift", "tools",
                                "swift-backtrace">>))
        script_path == path_join(<<package_path, "build-script-helper.py">>)
        install_path ==
            path_join(<<install_toolchain_path(host_target), "libexec", "swift">>)
        cmd == << script_path, action,
                  "--toolchain", native_toolchain_path(host_target),
                  "--configuration", configuration,
                  "--build-path", self.build_dir,
                  "--package-path", package_path,
                  "--install-path", install_path >>
    IN  IF self.verbose_build THEN Append(cmd, "--verbose") ELSE cmd

\* a helper process starts on command line cmdline (sys.argv[1:])
StartHelper(cmdline) ==
    /\ pc \in {"idle", "done"}
    /\ runs < MaxRuns
    /\ runs' = runs + 1
    /\ argv' = cmdline
    /\ pc' = "parse"
    /\ args' = NoArgs
    /\ live' = <<>>
    /\ spawned' = <<>>
    /\ invoke' = [called |-> FALSE, rc |-> Running, ret |-> <<>>]
    /\ query' = [called |-> FALSE, rc |-> Running, out |-> ""]
    /\ built_binary' = None
    /\ dirs0' = dirs
    /\ files0' = files
    /\ produced' = {}
    /\ copies' = <<>>
    /\ error' = ""
    /\ exit_status' = Running
    /\ UNCHANGED << self, dirs, files >>

\* shell.call(helper_cmd): the command is run as a child of the build script
run_build_script_helper(action, host_target) ==
    LET cmd == helper_cmd(action, host_target) IN
    /\ StartHelper(Tail(cmd))
    /\ issued' = <<cmd>>

build(host_target) ==
    /\ call' = [method |-> "build", host_target |-> host_target]
    /\ run_build_script_helper("build", host_target)

test(host_target) ==
    /\ call' = [method |-> "test", host_target |-> host_target]
    /\ run_build_script_helper("test", host_target)

install(host_target) ==
    /\ call' = [method |-> "install", host_target |-> host_target]
    /\ run_build_script_helper("install", host_target)

---------------------------------------------------------------------------
(* The helper run from a shell *)

ExampleArgv ==
    << "build", "--package-path", "/src/pkg", "--build-path", "/tmp/out",
       "--toolchain", "/opt/toolchain" >>

CliArgvs ==
    { ExampleArgv,
      << "test", "-v", "--package-path", "/src/pkg", "--build-path", "/tmp/out",
         "--toolchain", "/opt/toolchain/", "--configuration", "debug" >>,
      << "install", "--package-path", "/src/pkg", "--build-path", "/tmp/out",
         "--toolchain", "/opt/toolchain", "--install-path", "/inst", "--verbose" >>,
      << "install", "--package-path", "/src/pkg", "--build-path", "/tmp/out",
         "--toolchain", "/opt/toolchain" >>,
      << "--package-path=/src/pkg", "--build-path=/tmp/out", "--tool", "/opt/toolchain",
         "-vv", "--install-path", "/inst/sub/", "--", "install" >>,
      << "install", "--package-path", "/src/pkg", "--build-path", "/tmp/out",
         "--toolchain", "/opt/toolchain", "--install-path", "None" >>,
      << "install", "--package-path", "/src/pkg", "--build-path", "/tmp/out",
         "--toolchain", "/opt/toolchain", "--install-path", "/tmp/out/release" >>,
      << "clean", "--package-path", "/src/pkg", "--build-path", "/tmp/out",
         "--toolchain", "/opt/toolchain", "--install-path", "/inst" >>,
      << "", "--package-path", "None", "--build-path", "-1", "--toolchain", "-x y" >>,
      << "build", "--package-path", "/src/pkg", "--build-path", "/tmp/out",
         "--configuration", "fast" >>,
      << "build", "-h" >>,
      << "build", "--package-path=--", "--build-path", "/tmp/out",
         "--toolchain", "/opt/toolchain", "--configuration=--" >>,
      << "install", "--package-path", "/src/pkg", "--build-path", "/tmp/out",
         "--toolchain", "/opt/toolchain", "--install-path=--" >>,
      << "install", "--package-path", "/src/pkg", "--build-path=--",
         "--toolchain", "/opt/toolchain", "--install-path", "/inst", "-v" >>,
      << "clean", "--package-path", "/src/pkg", "--build-path", "/tmp/out",
         "--toolchain=--", "--prefix=--" >>,
      << "clean", "--package-path=--", "--build-path=--",
         "--toolchain", "/opt/toolchain" >> }

cli(cmdline) ==
    /\ call' = NoCall
    /\ issued' = <<>>
    /\ StartHelper(cmdline)

---------------------------------------------------------------------------
(* The helper: the steps of main() *)

Frame == UNCHANGED << self, call, issued, argv, dirs0, files0, runs >>

\* main returns (status 0) or an uncaught exception ends the process (status 1)
Exit(status, exc) ==
    /\ pc' = "done"
    /\ exit_status' = status
    /\ error' = exc

\* line 20: parser.parse_args() returns the namespace, or ends the process
\* with status 2 (an error) or 0 (the help); line 22: os.path.join raises
\* TypeError when args.toolchain is a list
main_parse ==
    /\ pc = "parse"
    /\ LET r == parse_args(argv) IN
       IF r.status = "ok"
       THEN /\ args' = r.ns
            /\ IF IsStr(r.ns.toolchain)
               THEN /\ pc' = "dispatch"
                    /\ UNCHANGED << exit_status, error >>
               ELSE Exit(1, "TypeError")
       ELSE /\ Exit(IF r.status = "help" THEN 0 ELSE 2, "SystemExit")
            /\ UNCHANGED args
    /\ UNCHANGED << live, spawned, invoke, query, built_binary, dirs, files,
                    produced, copies >>
    /\ Frame

\* mutant: the child is started and not waited for
invoke_swift_no_wait(action, product, extra_args) ==
    LET cmd == get_args_for_swift(action, product, extra_args) IN
    IF AllStr(cmd)
    THEN /\ live' = Append(live, child_argv(cmd))
         /\ spawned' = Append(spawned, child_argv(cmd))
         /\ pc' = IF args.action = Some("install") THEN "makedirs" ELSE "done"
         /\ UNCHANGED << exit_status, error >>
    ELSE /\ Exit(1, "TypeError")
         /\ UNCHANGED << live, spawned >>

\* lines 40-41: subprocess.call(...) starts the child and blocks until it
\* exits; it raises TypeError, with no child started, for a list that holds
\* a list
invoke_swift(action, product, extra_args) ==
    LET cmd == get_args_for_swift(action, product, extra_args) IN
    IF AllStr(cmd)
    THEN /\ live' = Append(live, child_argv(cmd))
         /\ spawned' = Append(spawned, child_argv(cmd))
         /\ pc' = "invoke_wait"
         /\ UNCHANGED << exit_status, error >>
    ELSE /\ Exit(1, "TypeError")
         /\ UNCHANGED << live, spawned >>

\* mutant: the last branch is an else, so any other action is built
main_dispatch_else_build ==
    /\ pc = "dispatch"
    /\ IF args.action = Some("test")
       THEN invoke_swift("test", "swift-backtrace", <<>>)
       ELSE invoke_swift("build", "swift-backtrace", <<>>)
    /\ UNCHANGED << args, invoke, query, built_binary, dirs, files, produced,
                    copies >>
    /\ Frame

main_dispatch ==
    /\ pc = "dispatch"
    /\ IF args.action = Some("build")
       THEN invoke_swift("build", "swift-backtrace", <<>>)
       ELSE IF args.action = Some("test")
       THEN invoke_swift("test", "swift-backtrace", <<>>)
       ELSE IF args.action = Some("install")
       THEN invoke_swift("build", "swift-backtrace", <<>>)
       ELSE /\ Exit(0, "")
            /\ UNCHANGED << live, spawned >>
    /\ UNCHANGED << args, invoke, query, built_binary, dirs, files, produced,
                    copies >>
    /\ Frame

\* the child of invoke_swift exits with code rc; invoke_swift returns
invoke_swift_return(rc) ==
    /\ pc = "invoke_wait"
    /\ live # <<>>
    /\ LET cmd == Head(live)
           wrote == SwiftWrites(dirs, files, cmd, rc)
       IN  /\ files' = files \cup wrote
           /\ produced' = produced \cup wrote
    /\ live' = Tail(live)
    /\ invoke' = [called |-> TRUE, rc |-> rc, ret |-> <<>>]
    /\ IF args.action = Some("install")
       THEN /\ pc' = "makedirs"
            /\ UNCHANGED << exit_status, error >>
       ELSE Exit(0, "")
    /\ UNCHANGED << args, spawned, query, built_binary, dirs, copies >>
    /\ Frame

\* mutant: os.makedirs(args.install_path, exist_ok=True)
makedirs_exist_ok ==
    /\ pc = "makedirs"
    /\ IF ~IsStr(args.install_path)
       THEN /\ Exit(1, "TypeError")
            /\ UNCHANGED dirs
       ELSE LET r == os_makedirs(dirs, files, args.install_path[1]) IN
            /\ dirs' = r.dirs
            /\ IF r.exc = "" \/ (r.exc = "FileExistsError"
                                 /\ path_isdir(dirs, files, args.install_path[1]))
               THEN /\ pc' = "get_binary_path"
                    /\ UNCHANGED << exit_status, error >>
               ELSE Exit(1, r.exc)
    /\ UNCHANGED << args, live, spawned, invoke, query, built_binary, files,
                    produced, copies >>
    /\ Frame

\* line 54: os.makedirs(args.install_path)
makedirs ==
    /\ pc = "makedirs"
    /\ IF ~IsStr(args.install_path)
       THEN /\ Exit(1, "TypeError")
            /\ UNCHANGED dirs
       ELSE LET r == os_makedirs(dirs, files, args.install_path[1]) IN
            /\ dirs' = r.dirs
            /\ IF r.exc = ""
               THEN /\ pc' = "get_binary_path"
                    /\ UNCHANGED << exit_status, error >>
               ELSE Exit(1, r.exc)
    /\ UNCHANGED << args, live, spawned, invoke, query, built_binary, files,
                    produced, copies >>
    /\ Frame

\* get_binary_path: subprocess.check_output(cmd) starts the query child
get_binary_path(product) ==
    /\ pc = "get_binary_path"
    /\ LET cmd == get_args_for_swift("build", product, <<"--show-bin-path">>) IN
       IF AllStr(cmd)
       THEN /\ live' = Append(live, child_argv(cmd))
            /\ spawned' = Append(spawned, child_argv(cmd))
            /\ pc' = "query_wait"
            /\ UNCHANGED << exit_status, error >>
       ELSE /\ Exit(1, "TypeError")
            /\ UNCHANGED << live, spawned >>
    /\ UNCHANGED << args, invoke, query, built_binary, dirs, files, produced,
                    copies >>
    /\ Frame

\* the query child exits with code rc having printed out; get_binary_path
\* raises or returns the path
get_binary_path_return(rc, out) ==
    /\ pc = "query_wait"
    /\ live # <<>>
    /\ live' = Tail(live)
    /\ query' = [called |-> TRUE, rc |-> rc, out |-> out]
    /\ IF rc # 0
       THEN /\ Exit(1, "CalledProcessError")
            /\ UNCHANGED built_binary
       ELSE /\ built_binary' = Some(path_join(<<strip(out), "swift-backtrace">>))
            /\ pc' = "copyfile"
            /\ UNCHANGED << exit_status, error >>
    /\ UNCHANGED << args, spawned, invoke, dirs, files, produced, copies >>
    /\ Frame

\* lines 56-57: shutil.copyfile(built_binary,
\*                               os.path.join(args.install_path, 'swift-backtrace'))
copyfile ==
    /\ pc = "copyfile"
    /\ LET dst == path_join(<<args.install_path[1], "swift-backtrace">>)
           r == shutil_copyfile(dirs, files, built_binary[1], dst)
       IN  /\ files' = r.files
           /\ IF r.exc = ""
              THEN /\ copies' = Append(copies, <<r.src, r.dst>>)
                   /\ Exit(0, "")
              ELSE /\ Exit(1, r.exc)
                   /\ UNCHANGED copies
    /\ UNCHANGED << args, live, spawned, invoke, query, built_binary, dirs,
                    produced >>
    /\ Frame

---------------------------------------------------------------------------
(* The specification *)

\* the descriptors the build script constructs: the source directory as an
\* absolute path, a relative one and one with two leading slashes
Descriptors ==
    { [source_dir |-> "/w/swift-backtrace", build_dir |-> "/b/swiftbacktrace",
       release |-> TRUE, verbose_build |-> FALSE],
      [source_dir |-> "swift-backtrace", build_dir |-> "/b/swiftbacktrace",
       release |-> FALSE, verbose_build |-> TRUE],
      [source_dir |-> "//x/swift-backtrace", build_dir |-> "/b/swiftbacktrace",
       release |-> TRUE, verbose_build |-> TRUE] }

Init ==
    /\ self \in Descriptors
    /\ call = NoCall
    /\ issued = <<>>
    /\ pc = "idle"
    /\ argv = <<>>
    /\ args = NoArgs
    /\ live = <<>>
    /\ spawned = <<>>
    /\ invoke = [called |-> FALSE, rc |-> Running, ret |-> <<>>]
    /\ query = [called |-> FALSE, rc |-> Running, out |-> ""]
    /\ built_binary = None
    /\ dirs \in {{"/tmp"}, {"/tmp", "/inst"}}
    /\ files = {}
    /\ dirs0 = dirs
    /\ files0 = files
    /\ produced = {}
    /\ copies = <<>>
    /\ error = ""
    /\ exit_status = Running
    /\ runs = 0

Next ==
    \/ \E h \in HostTargets : build(h)
    \/ \E h \in HostTargets : test(h)
    \/ \E h \in HostTargets : install(h)
    \/ \E c \in CliArgvs : cli(c)
    \/ main_parse
    \/ main_dispatch
    \/ \E rc \in ExitCodes : invoke_swift_return(rc)
    \/ makedirs
    \/ get_binary_path("swift-backtrace")
    \/ /\ pc = "query_wait"
       /\ \E rc \in ExitCodes : \E out \in QueryOutputs(Head(live)) :
              get_binary_path_return(rc, out)
    \/ copyfile

Spec == Init /\ [][Next]_vars

---------------------------------------------------------------------------
(* Vocabulary of the properties *)

Elems(v) == {v[i] : i \in 1..Len(v)}

Count(v, x) == Cardinality({i \in 1..Len(v) : v[i] = x})

\* x is at some position of v with y right after it
Adjacent(v, x, y) == \E i \in 1..(Len(v) - 1) : v[i] = x /\ v[i + 1] = y

\* the first position of x in v (0 if absent)
IndexOf(v, x) ==
    IF x \in Elems(v) THEN CHOOSE i \in 1..Len(v) : v[i] = x /\ \A j \in 1..(i - 1) : v[j] # x
    ELSE 0

\* the verb and the extra arguments main passes for the i-th child of a run
VerbOf(i) == IF i = 1 /\ args.action = Some("test") THEN "test" ELSE "build"
ExtraOf(i) == IF i = 1 THEN <<>> ELSE <<"--show-bin-path">>
FlagOf(verb) == IF verb = "test" THEN "--test-product" ELSE "--product"

\* the helper's action, once the command line is parsed
ActionIs(a) == args.action = Some(a)

\* the command line gives the verbose option: an argument before any "--"
\* that stands for -v or --verbose (spelt out, abbreviated or clustered)
VerboseGiven ==
    \E i \in 1..Len(argv) :
        /\ \A j \in 1..(i - 1) : argv[j] # "--"
        /\ argv[i] # "--"
        /\ parse_optional(argv[i]).kind = "O"
        /\ parse_optional(argv[i]).opt \in {"-v", "--verbose"}

\* the vector the specification lays out, followed by tail
LaidOut(v, i, tail) ==
    v = << path_join(<<args.toolchain[1], "bin", "swift">>), VerbOf(i),
           "--package-path", args.package_path[1],
           "--scratch-path", args.build_path[1],
           "--configuration", args.configuration[1] >>
        \o ExtraOf(i)
        \o << FlagOf(VerbOf(i)), "swift-backtrace" >>
        \o tail

OnceAndOrdered(v, i) ==
    /\ Count(v, "--package-path") = 1
    /\ Count(v, "--scratch-path") = 1
    /\ Count(v, "--configuration") = 1
    /\ IndexOf(v, "--package-path") < IndexOf(v, "--scratch-path")
    /\ IndexOf(v, "--scratch-path") < IndexOf(v, "--configuration")
    /\ IndexOf(v, "--configuration") < IndexOf(v, FlagOf(VerbOf(i)))

ExampleVector ==
    << "/opt/toolchain/bin/swift", "build", "--package-path", "/src/pkg",
       "--scratch-path", "/tmp/out", "--configuration", "release",
       "--product", "swift-backtrace" >>

ExampleHolds == argv = ExampleArgv /\ spawned # <<>> => spawned[1] = ExampleVector

---------------------------------------------------------------------------
(* C1 *)

\* C1 (as stated): a helper run that called invoke_swift and ended without an
\* exception ended with the exit code of that child (invoke_swift having
\* handed the code back to main).
C1_ExitStatusPropagated ==
    pc = "done" /\ invoke.called /\ error = "" => exit_status = invoke.rc

---------------------------------------------------------------------------
(* C2 *)

\* C2 (as stated): every vector handed to the toolchain is exactly swift path,
\* verb, --package-path P, --scratch-path B, --configuration M, the extra
\* arguments, the product flag and the product, and nothing more; the three
\* options occur once each, in that order, before the product flag; the
\* example configuration gives the example vector.
C2_ExactVector ==
    /\ \A i \in 1..Len(spawned) :
          /\ LaidOut(spawned[i], i, <<>>)
          /\ OnceAndOrdered(spawned[i], i)
    /\ ExampleHolds

\* C2 (amended): the same vector, followed by --verbose when the verbose
\* option was given.
C2_VectorThenVerbose ==
    /\ \A i \in 1..Len(spawned) :
          /\ LaidOut(spawned[i], i, IF VerboseGiven THEN <<"--verbose">> ELSE <<>>)
          /\ OnceAndOrdered(spawned[i], i)
    /\ ExampleHolds

\* a verbose install has issued both its vectors, the query's extra argument included
C2_Witness ==
    /\ VerboseGiven
    /\ Len(spawned) = 2
    /\ "--show-bin-path" \in Elems(spawned[2])

---------------------------------------------------------------------------
(* C3 *)

\* C3: every vector of a test run names the product with --test-product P and
\* holds no --product; every vector of a build or install run names it with
\* --product P and holds no --test-product.
C3_ProductFlagByAction ==
    \A i \in 1..Len(spawned) :
        LET v == spawned[i] IN
        IF ActionIs("test")
        THEN /\ Adjacent(v, "--test-product", "swift-backtrace")
             /\ "--product" \notin Elems(v)
        ELSE /\ Adjacent(v, "--product", "swift-backtrace")
             /\ "--test-product" \notin Elems(v)

C3_Witness ==
    /\ ActionIs("test")
    /\ pc = "done"
    /\ Len(spawned) = 1
    /\ Adjacent(spawned[1], "--test-product", "swift-backtrace")

---------------------------------------------------------------------------
(* C4 *)

\* C4: a vector holds --verbose iff the verbose option was given, and then
\* once, as its last element; the show-bin-path query is no exception.
C4_VerboseIffGiven ==
    \A i \in 1..Len(spawned) :
        LET v == spawned[i] IN
        /\ ("--verbose" \in Elems(v)) <=> VerboseGiven
        /\ VerboseGiven => Count(v, "--verbose") = 1 /\ v[Len(v)] = "--verbose"

C4_Witness ==
    /\ VerboseGiven
    /\ Len(spawned) = 2
    /\ "--show-bin-path" \in Elems(spawned[2])
    /\ spawned[2][Len(spawned[2])] = "--verbose"

---------------------------------------------------------------------------
(* C5 *)

Waiting == pc \in {"invoke_wait", "query_wait"}

\* this run's os.makedirs made the directory the install path names
InstallDirCreated ==
    /\ IsStr(args.install_path)
    /\ resolve(dirs, files, args.install_path[1]).err = ""
    /\ resolve(dirs, files, args.install_path[1]).path \in dirs \ dirs0

\* C5 (as stated): no two children are alive at once, the helper waits for a
\* child before doing anything else, no run starts a second child, and a run
\* of build, test or install that has ended started exactly one.
C5_OneChildPerAction ==
    /\ Len(live) <= 1
    /\ live # <<>> => Waiting
    /\ Len(spawned) <= 1
    /\ pc = "done" /\ args.action # None /\ args.action[1] \in Actions => Len(spawned) = 1

\* the run ended before its first child: an option written --opt=-- left a
\* list where main needs a str
EndedOnTypeError == pc = "done" /\ error = "TypeError" /\ exit_status = 1

\* C5 (amended): no two children are alive at once and the helper waits for
\* each; build and test start at most one child, and exactly one unless the
\* run ends on a TypeError; install starts the build child (unless it ends
\* on a TypeError first) and, only once it has created the install
\* directory, a second one, the show-bin-path query, which every install
\* that ends without an exception has started.
C5_ChildrenOneAtATime ==
    /\ Len(live) <= 1
    /\ live # <<>> => Waiting
    /\ ActionIs("build") \/ ActionIs("test") =>
          /\ Len(spawned) <= 1
          /\ pc = "done" => Len(spawned) = 1 \/ EndedOnTypeError
          /\ pc = "done" /\ error = "" => Len(spawned) = 1
    /\ ActionIs("install") =>
          /\ Len(spawned) <= 2
          /\ Len(spawned) = 2 =>
                /\ "--show-bin-path" \in Elems(spawned[2])
                /\ InstallDirCreated
          /\ pc = "done" => Len(spawned) >= 1 \/ EndedOnTypeError
          /\ pc = "done" /\ error = "" => Len(spawned) = 2

\* an install that ran to its end started two children, one after the other
C5_Witness ==
    /\ ActionIs("install")
    /\ pc = "done"
    /\ Len(spawned) = 2
    /\ live = <<>>

---------------------------------------------------------------------------
(* C6 *)

\* the install path named a directory when this run started
InstallDirExisted ==
    /\ IsStr(args.install_path)
    /\ path_isdir(dirs0, files0, args.install_path[1])

\* C6: an install whose install directory existed when it started copies
\* nothing (the only files that appear are those its build child wrote) and
\* ends with a failure status: with FileExistsError, once its build step has
\* run (a run that cannot start the build step ends on a TypeError).
C6_InstallDirConflict ==
    ActionIs("install") /\ InstallDirExisted =>
        /\ copies = <<>>
        /\ files \ files0 \subseteq produced
        /\ pc # "copyfile"
        /\ pc = "done" =>
              /\ exit_status \notin {0, Running}
              /\ IF invoke.called THEN error = "FileExistsError"
                                  ELSE error = "TypeError"

C6_Witness ==
    /\ ActionIs("install")
    /\ InstallDirExisted
    /\ pc = "done"
    /\ error = "FileExistsError"
    /\ invoke.called

---------------------------------------------------------------------------
(* C7 *)

\* C7 (as stated): a copy happens only when this run created the install
\* directory, the copied file is the one this run's build step produced, at
\* the printed path joined with swift-backtrace, and no earlier step (build,
\* directory creation, query) failed.
C7_CopyOnlyAfterAllSteps ==
    copies # <<>> =>
        /\ InstallDirCreated
        /\ copies[1][1] = canonical(path_join(<<strip(query.out), "swift-backtrace">>))
        /\ copies[1][1] \in files
        /\ copies[1][1] \in produced
        /\ invoke.rc = 0
        /\ query.rc = 0

---------------------------------------------------------------------------
(* C8 *)

\* C8 (as stated): once the query child has exited, get_binary_path has
\* raised and returned no path if the child failed or printed nothing but
\* whitespace, and has otherwise returned the trimmed output joined with
\* swift-backtrace.
C8_QueryFailureRaises ==
    query.called =>
        IF query.rc # 0 \/ strip(query.out) = ""
        THEN built_binary = None /\ pc = "done" /\ error = "CalledProcessError"
        ELSE built_binary = Some(path_join(<<strip(query.out), "swift-backtrace">>))

---------------------------------------------------------------------------
(* C9 *)

ExpectedInstallPath == install_toolchain_path(call.host_target) \o "/libexec/swift"

IssuedAsCalled(cmd) ==
    /\ cmd[2] = call.method
    /\ Count(cmd, "--configuration") = 1
    /\ OptValue(cmd, "--configuration") = Some(IF self.release THEN "release" ELSE "debug")
    /\ Count(cmd, "--toolchain") = 1
    /\ OptValue(cmd, "--toolchain") = Some(native_toolchain_path(call.host_target))
    /\ ("--verbose" \in Elems(cmd)) <=> self.verbose_build
    /\ self.verbose_build => cmd[Len(cmd)] = "--verbose"

\* C9 (as stated): a descriptor method issues one helper command, with its own
\* verb, the configuration, the native toolchain and --verbose as set;
\* --install-path <install toolchain>/libexec/swift is what install passes in
\* addition to what build and test pass.
C9_InstallPathOnInstallOnly ==
    call.method # "" =>
        /\ Len(issued) = 1
        /\ IssuedAsCalled(issued[1])
        /\ ("--install-path" \in Elems(issued[1])) <=> call.method = "install"
        /\ call.method = "install" =>
              OptValue(issued[1], "--install-path") = Some(ExpectedInstallPath)

\* C9 (amended): the same, with --install-path <install toolchain>/libexec/swift
\* passed by all three methods.
C9_InstallPathAlways ==
    call.method # "" =>
        /\ Len(issued) = 1
        /\ IssuedAsCalled(issued[1])
        /\ Count(issued[1], "--install-path") = 1
        /\ OptValue(issued[1], "--install-path") = Some(ExpectedInstallPath)

\* a verbose debug build was asked for and the helper it started has parsed
\* the command
C9_Witness ==
    /\ call.method = "build"
    /\ ~self.release
    /\ self.verbose_build
    /\ Len(issued) = 1
    /\ ActionIs("build")
    /\ args.install_path = Some(ExpectedInstallPath)

---------------------------------------------------------------------------
(* C10 *)

\* the required path options are given: the parser accepted the command line
\* and each of the three holds a path or, for an option written --opt=--,
\* the empty list; the toolchain, which main joins a path to, holds a path
RequiredPathsGiven ==
    /\ args.package_path # None
    /\ args.build_path # None
    /\ IsStr(args.toolchain)

\* C10: a helper whose action is none of build, test, install, given the
\* required path options, is accepted by the parser, starts no child, leaves
\* directories and files as they were and ends with status 0.
C10_UnknownActionIsNoOp ==
    args.action # None /\ args.action[1] \notin Actions /\ RequiredPathsGiven =>
        /\ spawned = <<>>
        /\ live = <<>>
        /\ dirs = dirs0
        /\ files = files0
        /\ copies = <<>>
        /\ pc \in {"dispatch", "done"}
        /\ pc = "done" => exit_status = 0 /\ error = ""

C10_Witness ==
    /\ ActionIs("clean")
    /\ RequiredPathsGiven
    /\ pc = "done"
    /\ exit_status = 0
    /\ spawned = <<>>

====
